---- MODULE Spec2Model ----
(***************************************************************************)
(* WASAPI audio source (plugins/win-wasapi/win-wasapi.cpp, class           *)
(* WASAPISource): the control thread (constructor, Update, destructor),    *)
(* the capture-loop threads and the reconnect-supervisor threads, and the  *)
(* per-batch data path of ProcessCaptureData.                              *)
(*                                                                         *)
(* Spec     : the life cycle (Start / Stop / Update / Reconnect and the    *)
(*            threads), every access to a shared field a step of its own.  *)
(* SpecPipe : ProcessCaptureData of one capture thread, batch by batch.    *)
(***************************************************************************)
EXTENDS Integers, Sequences, FiniteSets, TLC

\* ------------------------------------------------------------------ bounds

\* Worker threads one source creates over a run; CreateThread fails beyond
\* it.
MaxThreads == 3

\* Update() calls the host makes on one source.
MaxUpdates == 1

\* Batches drained on the data path of a run.
MaxBatches == 5

\* Largest echo-canceller input delay of a session of SpecPipe.
MaxDelay == 2

\* The open attempts and the warnings the history counts; a further one
\* leaves the counter at this value.
MaxAttempts == 2

\* Capture threads that follow the first one on the data path.
MaxSessions == 1

\* ------------------------------------------------------------- life cycle

NoThread == 0
Control == 0
Workers == 1..MaxThreads

DeviceIds == {"default", "mic"}
DumpDirs == {"", "dump"}
Delays == {2, 3}
MonitoringTypes == {"NONE", "MONITOR_ONLY"}

\* The values of an obs_data_t the source reads (OPT_* keys).
Settings ==
    [device_id : DeviceIds,
     use_device_timing : BOOLEAN,
     disable_echo_cancellation : BOOLEAN,
     aec_input_delay : Delays,
     aec_dump_file_dir : DumpDirs]

\* GetWASAPIDefaultsInput.
DefaultSettings ==
    [device_id |-> "default",
     use_device_timing |-> FALSE,
     disable_echo_cancellation |-> FALSE,
     aec_input_delay |-> 2,
     aec_dump_file_dir |-> ""]

Fields == DOMAIN DefaultSettings

\* The fields in which two settings differ.
Changed(old, new) == {f \in Fields : old[f] # new[f]}

\* The settings the host passes to Update(): the defaults, the defaults with
\* one field changed (each field), and the defaults with every field changed.
Offered ==
    {s \in Settings : Cardinality(Changed(DefaultSettings, s))
                          \in {0, 1, Cardinality(Fields)}}

VARIABLES
    \* configuration fields of WASAPISource
    device_id, useDeviceTiming, isDefaultDevice, disableAEC, aecInputDelay,
    aecDumpFileDir, isInputDevice,
    \* session fields of WASAPISource
    active, reconnecting, previouslyFailed, captureThread, reconnectThread,
    stopSignal, receiveSignal, clientStarted, captureDMO,
    \* the monitoring type of the owning obs source
    monitoring,
    \* threads: thr[0] is the control thread, the others the worker threads
    thr,
    \* the control thread's current call, and the Update() calls so far
    call, nupdates,
    \* history: what the current control call has done, in order
    trace,
    \* ProcessCaptureData of one capture thread (SpecPipe)
    pipe,
    \* what the endpoint does at an open attempt
    world,
    \* history: the open attempts, their log lines and the emitted batches
    log

cfgVars == <<device_id, useDeviceTiming, isDefaultDevice, disableAEC,
             aecInputDelay, aecDumpFileDir, isInputDevice>>
flagVars == <<active, reconnecting, previouslyFailed>>
handleVars == <<captureThread, reconnectThread>>
sigVars == <<stopSignal, receiveSignal>>
devVars == <<clientStarted, captureDMO>>
envVars == <<monitoring>>
callVars == <<call, nupdates, trace>>
obsVars == <<world, log>>
lifeVars == <<cfgVars, flagVars, handleVars, sigVars, devVars, envVars,
              thr, callVars, obsVars>>
vars == <<lifeVars, pipe>>

\* ------------------------------------------------------------ open attempts

\* What the endpoint does at the open attempts of a run: anything; or it is
\* absent at every attempt, all else working; or every call of every attempt
\* whose result is tested succeeds.
Worlds == {"any", "absent", "ok"}

\* The calls of Initialize() that can fail, by the function that makes them.
\* InitRender() makes the first three on the loopback reference of an input
\* device, and all six on an output device; the echo canceller of
\* InitCapture() is set up in thirteen.
ClientSteps == {"Activate", "GetMixFormat", "ClientInitialize"}
RenderInputSteps ==
    {"RenderActivate", "RenderGetMixFormat", "RenderInitialize"}
RenderOutputSteps ==
    RenderInputSteps \cup {"GetBufferSize", "GetRenderService",
                           "GetRenderBuffer"}
CaptureSteps == {"GetService", "SetEventHandle"}
DmoSteps ==
    {"RenderCaptureService", "CreateDMO", "PropertyStore", "SourceMode",
     "SystemMode", "MixFormat0", "InputType0", "MixFormat1", "InputType1",
     "InitMediaType", "OutputType", "AllocateStreamingResources",
     "OutputBuffer"}

\* deviceRender after InitDevice(): the default render endpoint is looked up
\* only for an input device with echo cancellation enabled, and the result
\* of the lookup (found) is not tested.
DeviceRender(found) == isInputDevice /\ ~disableAEC /\ found

\* The calls an attempt makes, hence the places it can fail at ("none": at
\* no place), on an input or an output device, with or without a render
\* endpoint: InitRender() returns at once on an input device without one,
\* and InitCapture() sets the canceller up only with a reference client.
Faults(input, render) ==
    {"none", "CoCreateInstance", "InitDevice"}
        \cup ClientSteps \cup CaptureSteps
        \cup (IF ~input THEN RenderOutputSteps
              ELSE IF render THEN RenderInputSteps \cup DmoSteps
              ELSE {})

\* What a world lets an attempt do.
Allowed(w, f) ==
    CASE w = "absent" -> f = "InitDevice"
      [] w = "ok" -> f = "none"
      [] OTHER -> TRUE

\* How Initialize() ends when the call f fails: InitDevice() returns false
\* and Initialize() returns, without throwing; the canceller's try block
\* absorbs its failures; every other failure is thrown to TryInitialize().
OutcomeUncaught(f) ==
    CASE f = "none" -> "ok"
      [] f = "InitDevice" -> "notfound"
      [] f \in DmoSteps \ {"OutputBuffer"} -> "absorbed"
      [] OTHER -> "throw"

Outcome(f) ==
    CASE f = "none" -> "ok"
      [] f = "InitDevice" -> "notfound"
      [] f \in DmoSteps -> "absorbed"
      [] OTHER -> "throw"

\* The formats a device may accept at client->Initialize: its mix format,
\* mono 16-bit PCM, mono 16-bit PCM at a fixed rate.
AcceptSets ==
    {{"native", "mono16", "fixed"}, {"mono16", "fixed"}, {"fixed"}, {}}

\* The formats InitClient() passes to client->Initialize, in order: the mix
\* format GetMixFormat reported, and no other.
Tried == <<"native">>

\* The position in Tried of the format the device accepted, 0 when it
\* accepted none (InitClient() throws).
InitClient(accepts) ==
    IF \E i \in 1..Len(Tried) : Tried[i] \in accepts
    THEN CHOOSE i \in 1..Len(Tried) :
            /\ Tried[i] \in accepts
            /\ \A j \in 1..(i - 1) : Tried[j] \notin accepts
    ELSE 0

\* The WAVEFORMATEX GetMixFormat reports (32-bit float, stereo), which
\* InitClient() passes on unchanged.
MixFormat == [nChannels |-> 2, wBitsPerSample |-> 32, nBlockAlign |-> 8]
NoFormat == [nChannels |-> 0, wBitsPerSample |-> 0, nBlockAlign |-> 0]

\* The format of the client after InitClient() on a device that accepts
\* these formats.
ClientFormat(accepts) ==
    IF InitClient(accepts) = 0 THEN NoFormat ELSE MixFormat

\* What the device accepts in an attempt in which f fails: client->Initialize
\* fails exactly when the device rejects every format tried.
Accepting(f) ==
    {a \in AcceptSets : (f = "ClientInitialize") <=> (InitClient(a) = 0)}

\* ----------------------------------------------------------------- history

\* An open attempt: how Initialize() ended, whether a catch block of
\* TryInitialize() logged its warning, whether the attempt had a render
\* endpoint, and which formats the device accepted.
NoAttempt ==
    [result |-> "none", warned |-> FALSE, render |-> FALSE, accepts |-> {}]

\* An attempt that has passed the canceller, as its thread and the capture
\* loop it spawns keep it: how it passed, whether it had a render endpoint,
\* whether it started the reference client, and whether the handles of the
\* source are still the ones it made (own).
NoOpen ==
    [result |-> "none", render |-> FALSE, reference |-> FALSE,
     own |-> FALSE]

\* No history is kept.
LogOff ==
    [on |-> FALSE, attempts |-> 0, warnings |-> 0, opened |-> FALSE,
     last |-> NoAttempt]

\* The history of a source no attempt was made on.
LogStart == [LogOff EXCEPT !.on = TRUE]

Capped(n) == IF n < MaxAttempts THEN n + 1 ELSE n

\* The entry of an attempt in progress, kept with the history.
Kept(entry) ==
    IF log.on
    THEN [NoOpen EXCEPT !.result = entry.result, !.render = entry.render,
                        !.own = TRUE]
    ELSE NoOpen

\* The entry of an attempt that went on after the canceller: the device
\* accepted the mix format.
Passed(att) ==
    [NoAttempt EXCEPT !.result = att.result, !.render = att.render,
                      !.accepts = {"native", "mono16", "fixed"}]

\* Initialize() ran InitCapture() to its end.
Opened(entry) == entry.result \in {"ok", "absorbed"}

\* The history after an attempt that has ended as the entry says: the
\* warning of the catch blocks of TryInitialize() is counted, and opened
\* tells whether the attempt before this one opened a session.
Attempted(entry) ==
    IF log.on
    THEN [log EXCEPT !.attempts = Capped(@),
                     !.warnings = IF entry.warned THEN Capped(@) ELSE @,
                     !.opened = Opened(log.last),
                     !.last = entry]
    ELSE log

\* ---------------------------------------------------------------- threads

\* A capture loop no drain of which has failed.
NoDrain == [res |-> "none", warnings |-> 0]

\* A thread that has returned.
Dead ==
    [kind |-> "none", pc |-> "exited", h |-> NoThread,
     reconnect |-> FALSE, type |-> "NONE", failed |-> FALSE,
     att |-> NoOpen, silenced |-> FALSE, drain |-> NoDrain]

Alive(t) == thr[t].pc \notin {"unborn", "exited"}

\* The worker threads created so far are 1..Created; a thread that was
\* never created stands at "unborn".
Created == Cardinality({t \in Workers : thr[t].pc # "unborn"})

\* The thread CreateThread creates next.
Fresh == Created + 1

CaptureAlive(t) == thr[t].kind = "capture" /\ Alive(t)

ReconnectAlive(t) == thr[t].kind = "reconnect" /\ Alive(t)

At(t, p) == thr[t].pc = p

\* The capture threads that are in their capture loop (waiting or draining).
CaptureLoops ==
    {t \in Workers : thr[t].kind = "capture"
                        /\ thr[t].pc \in {"ct_wait", "ct_drain"}}

Goto(t, p) == thr' = [thr EXCEPT ![t].pc = p]

NoCall == [op |-> "none", restart |-> FALSE, settings |-> DefaultSettings]

CurrentSettings ==
    [device_id |-> device_id,
     use_device_timing |-> useDeviceTiming,
     disable_echo_cancellation |-> disableAEC,
     aec_input_delay |-> aecInputDelay,
     aec_dump_file_dir |-> aecDumpFileDir]

\* WASAPISource::WASAPISource up to its call of Start(): UpdateSettings has
\* stored the settings, both events exist and are unsignalled, and the
\* control thread stands at the first statement of Start().
LifeInit ==
    /\ device_id = DefaultSettings.device_id
    /\ useDeviceTiming = DefaultSettings.use_device_timing
    /\ isDefaultDevice = TRUE
    /\ disableAEC = DefaultSettings.disable_echo_cancellation
    /\ aecInputDelay = DefaultSettings.aec_input_delay
    /\ aecDumpFileDir = DefaultSettings.aec_dump_file_dir
    /\ isInputDevice \in BOOLEAN
    /\ active = FALSE
    /\ reconnecting = FALSE
    /\ previouslyFailed = FALSE
    /\ captureThread = NoThread
    /\ reconnectThread = NoThread
    /\ stopSignal = FALSE
    /\ receiveSignal = FALSE
    /\ clientStarted = FALSE
    /\ captureDMO = FALSE
    /\ monitoring = "MONITOR_ONLY"
    /\ thr = [t \in {Control} \cup Workers |->
                IF t = Control
                THEN [Dead EXCEPT !.kind = "control", !.pc = "ti_init"]
                ELSE [Dead EXCEPT !.pc = "unborn"]]
    /\ call = [NoCall EXCEPT !.op = "ctor"]
    /\ nupdates = 0
    /\ trace = << >>

\* ---------------------------------------------------------- TryInitialize

\* The thread t records the call it makes in the control call's history.
Note(t, what) == IF t = Control THEN Append(trace, what) ELSE trace

\* The catch blocks of TryInitialize: a failure that follows a failure
\* returns active at once, any other is logged and falls through to
\* "previouslyFailed = !active".
Caught == IF previouslyFailed THEN "ti_ret" ELSE "ti_prev"

\* blog(LOG_WARNING, "[WASAPISource::TryInitialize]...") of the catch
\* blocks.
Warned == ~previouslyFailed

\* The ways Initialize() can end: how, and with which formats accepted by
\* the device, over the calls that can fail and what the world allows.
EndsOf ==
    [w \in Worlds, input \in BOOLEAN, render \in BOOLEAN |->
        UNION {{Outcome(f)} \X Accepting(f) :
                    f \in {g \in Faults(input, render) : Allowed(w, g)}}]

\* An attempt that cannot do without a render endpoint.
EndsNeedRender(found) ==
    IF isInputDevice /\ ~disableAEC /\ ~found
    THEN {<<"throw", a>> : a \in AcceptSets}
    ELSE EndsOf[world, isInputDevice, DeviceRender(found)]

Ends(found) == EndsOf[world, isInputDevice, DeviceRender(found)]

\* The entry of an attempt that ends as the pair end says.
Entry(end, found) ==
    [NoAttempt EXCEPT
        !.result = end[1],
        !.warned = (end[1] = "throw" /\ Warned),
        !.render = (end[1] # "notfound" /\ DeviceRender(found)),
        !.accepts = end[2]]

\* Initialize() from its first statement to the echo canceller of
\* InitCapture. Every device handle is cleared first (releasing the client
\* ends its stream). Then, as the endpoint decides: InitDevice returns
\* false, without throwing, when the endpoint is not found; or a later step
\* throws; or the session is set up, with a canceller only for an input
\* device with echo cancellation enabled whose reference client and
\* canceller could be set up.
\* A canceller for every input device with echo cancellation enabled, with
\* or without a reference client.
HasCancellerUnreferenced(found, result) ==
    isInputDevice /\ ~disableAEC /\ result = "ok"

\* captureDMO after InitCapture(): the canceller is set up only for an input
\* device with echo cancellation enabled and a reference client (line 490),
\* and kept only if every step of its set-up succeeded.
HasCanceller(found, result) == DeviceRender(found) /\ result = "ok"

\* Initialize() clears every device handle of the source: the handles are
\* no longer those of an earlier attempt.
Cleared ==
    IF log.on
    THEN [u \in DOMAIN thr |-> [thr[u] EXCEPT !.att.own = FALSE]]
    ELSE thr

Initialize(t) ==
    /\ At(t, "ti_init")
    /\ clientStarted' = FALSE
    /\ trace' = Note(t, <<"Open", device_id>>)
    /\ \E found \in BOOLEAN : \E end \in Ends(found) :
          \/ /\ end[1] = "notfound"
             /\ thr' = [Cleared EXCEPT ![t].pc = "ti_prev",
                                       ![t].failed = TRUE]
             /\ captureDMO' = FALSE
             /\ log' = Attempted(Entry(end, found))
          \/ /\ end[1] = "throw"
             /\ thr' = [Cleared EXCEPT ![t].pc = Caught,
                                       ![t].failed = TRUE]
             /\ captureDMO' = FALSE
             /\ log' = Attempted(Entry(end, found))
          \/ /\ end[1] \in {"absorbed", "ok"}
             /\ captureDMO' = HasCanceller(found, end[1])
             /\ thr' = [Cleared EXCEPT ![t].pc = "ic_create",
                                       ![t].att = Kept(Entry(end, found))]
             /\ UNCHANGED log
    /\ UNCHANGED <<cfgVars, flagVars, handleVars, sigVars, envVars,
                   call, nupdates, pipe, world>>

\* History, kept in the thread records: a capture loop is silenced when
\* another capture loop ends on a failed drain, until an open attempt
\* spawns a capture loop.
Silenced(t) ==
    [u \in DOMAIN thr |->
        IF u \in CaptureLoops \ {t}
        THEN [thr[u] EXCEPT !.silenced = TRUE] ELSE thr[u]]

Unsilenced == [u \in DOMAIN thr |-> [thr[u] EXCEPT !.silenced = FALSE]]

\* CreateThread can fail, except where every call of every attempt succeeds
\* and a thread is left to create.
CreateFails == world # "ok" \/ Created = MaxThreads

\* InitCapture: captureThread = CreateThread(CaptureThread); a failure
\* throws into the catch block of TryInitialize.
InitCaptureCreateThread(t) ==
    /\ At(t, "ic_create")
    /\ \/ /\ Created < MaxThreads
          /\ captureThread' = Fresh
          /\ thr' = [Unsilenced EXCEPT
                ![t].pc = "ic_start",
                ![Fresh] = [Dead EXCEPT !.kind = "capture",
                                        !.pc = "ct_wait",
                                        !.att = thr[t].att]]
          /\ UNCHANGED log
       \/ /\ CreateFails
          /\ thr' = [thr EXCEPT ![t].pc = Caught, ![t].failed = TRUE]
          /\ log' = Attempted([Passed(thr[t].att) EXCEPT
                                !.result = "throw", !.warned = Warned])
          /\ UNCHANGED captureThread
    /\ UNCHANGED <<cfgVars, flagVars, reconnectThread, sigVars, devVars,
                   envVars, callVars, pipe, world>>

\* if (captureDMO.Get()) clientRender->Start(): the reference client is
\* started with a canceller only.
StartsReference(att) == [att EXCEPT !.reference = captureDMO]

\* The history of the threads once the clients of the attempt of t are
\* started: kept by t and by the capture loop it has spawned.
Started(t) ==
    IF log.on
    THEN [u \in DOMAIN thr |->
            IF u = t \/ thr[u].att.own
            THEN [thr[u] EXCEPT !.att = StartsReference(@)]
            ELSE thr[u]]
    ELSE thr

\* InitCapture: client->Start() (and clientRender->Start() with a canceller).
InitCaptureStart(t) ==
    /\ At(t, "ic_start")
    /\ clientStarted' = TRUE
    /\ thr' = [Started(t) EXCEPT ![t].pc = "ic_active"]
    /\ UNCHANGED <<cfgVars, flagVars, handleVars, sigVars, captureDMO,
                   envVars, callVars, pipe, obsVars>>

\* InitCapture: active = true.
InitCaptureActive(t) ==
    /\ At(t, "ic_active")
    /\ active' = TRUE
    /\ Goto(t, "ti_prev")
    /\ log' = Attempted(Passed(thr[t].att))
    /\ UNCHANGED <<cfgVars, reconnecting, previouslyFailed, handleVars,
                   sigVars, devVars, envVars, callVars, pipe, world>>

\* TryInitialize: previouslyFailed = !active.
TryInitializePrev(t) ==
    /\ At(t, "ti_prev")
    /\ previouslyFailed' = ~active
    /\ Goto(t, "ti_ret")
    /\ UNCHANGED <<cfgVars, active, reconnecting, handleVars, sigVars,
                   devVars, envVars, callVars, pipe, obsVars>>

\* The control call in progress returns to the host when t is the control
\* thread and done holds.
Return(t, done) ==
    IF t = Control /\ done
    THEN call' = NoCall /\ trace' = << >> /\ UNCHANGED nupdates
    ELSE UNCHANGED callVars

\* TryInitialize: return active, to Start() on the control thread (which
\* calls Reconnect() on false, and returns) or to the loop of
\* ReconnectThread (which breaks on true).
TryInitializeReturn(t) ==
    /\ At(t, "ti_ret")
    /\ thr' = [thr EXCEPT
            ![t].pc = IF thr[t].kind = "control"
                      THEN (IF active THEN "idle" ELSE "rc_flag")
                      ELSE (IF active THEN "rt_restore" ELSE "rt_wait"),
            ![t].failed = FALSE,
            ![t].att = NoOpen]
    /\ Return(t, active)
    /\ UNCHANGED <<cfgVars, flagVars, handleVars, sigVars, devVars, envVars,
                   pipe, obsVars>>

\* -------------------------------------------------------------- Reconnect

\* Reconnect(): reconnecting = true.
ReconnectFlag(t) ==
    /\ At(t, "rc_flag")
    /\ reconnecting' = TRUE
    /\ Goto(t, "rc_create")
    /\ UNCHANGED <<cfgVars, active, previouslyFailed, handleVars, sigVars,
                   devVars, envVars, callVars, pipe, obsVars>>

\* The caller of Reconnect() returns: Start() on the control thread,
\* CaptureThread on a capture thread.
Returned(t) == IF thr[t].kind = "control"
               THEN [thr[t] EXCEPT !.pc = "idle"]
               ELSE Dead

\* Reconnect(): reconnectThread = CreateThread(ReconnectThread); a failure
\* stores an invalid handle and logs a warning.
ReconnectCreateThread(t) ==
    /\ At(t, "rc_create")
    /\ \/ /\ Created < MaxThreads
          /\ reconnectThread' = Fresh
          /\ thr' = [thr EXCEPT
                ![t] = Returned(t),
                ![Fresh] = [Dead EXCEPT !.kind = "reconnect",
                                        !.pc = "rt_enter"]]
       \/ /\ reconnectThread' = NoThread
          /\ thr' = [thr EXCEPT ![t] = Returned(t)]
    /\ Return(t, TRUE)
    /\ UNCHANGED <<cfgVars, flagVars, captureThread, sigVars, devVars,
                   envVars, pipe, obsVars>>

\* ---------------------------------------------------------- CaptureThread

\* WaitForCaptureSignal(2, {receiveSignal, stopSignal}, dur): the wait
\* reports the lowest signalled index, so data-ready (auto-reset) wins over
\* A wait whose timeout ends the loop as the stop event does.
CaptureWaitTimeoutEnds(t) ==
    /\ At(t, "ct_wait")
    /\ \/ /\ receiveSignal
          /\ receiveSignal' = FALSE
          /\ Goto(t, "ct_drain")
       \/ /\ ~receiveSignal
          /\ Goto(t, "ct_stop")
          /\ UNCHANGED receiveSignal
    /\ UNCHANGED <<cfgVars, flagVars, handleVars, stopSignal, devVars,
                   envVars, callVars, pipe, obsVars>>

\* stop; data-ready and a timeout continue the loop, stop alone ends it, and
\* the thread goes on to source->client->Stop().
CaptureWait(t) ==
    /\ At(t, "ct_wait")
    /\ \/ /\ receiveSignal
          /\ receiveSignal' = FALSE
          /\ Goto(t, "ct_drain")
       \/ /\ ~receiveSignal
          /\ stopSignal
          /\ Goto(t, "ct_stop")
          /\ UNCHANGED receiveSignal
       \/ /\ ~receiveSignal
          /\ ~stopSignal
          /\ Goto(t, "ct_drain")
          /\ UNCHANGED receiveSignal
    /\ UNCHANGED <<cfgVars, flagVars, handleVars, stopSignal, devVars,
                   envVars, callVars, pipe, obsVars>>

\* The HRESULT of a failed GetNextPacketSize or GetBuffer of the capture
\* service: AUDCLNT_E_DEVICE_INVALIDATED or any other failure code.
DrainFailures == {"invalidated", "other"}

\* A drain that logs its warning for an invalidated device too.
DrainWarnsAlways(res) == TRUE

\* if (res != AUDCLNT_E_DEVICE_INVALIDATED) blog(LOG_WARNING, ...), before
\* "return false".
DrainWarns(res) == res # "invalidated"

\* History, kept in the thread record: the failure that ended the drain and
\* the warnings ProcessCaptureData logged for it.
Failed(res) ==
    IF log.on
    THEN [res |-> res, warnings |-> IF DrainWarns(res) THEN 1 ELSE 0]
    ELSE NoDrain

\* ProcessCaptureData as the loop sees it: true after a drain, false when a
\* drain call fails (device invalidated, or any other failure); on false
\* reconnect = true, the loop ends and the thread goes on to
\* source->client->Stop().
CaptureDrain(t) ==
    /\ At(t, "ct_drain")
    /\ \/ Goto(t, "ct_wait")
       \/ \E res \in DrainFailures :
            thr' = [Silenced(t) EXCEPT ![t].pc = "ct_stop",
                                      ![t].reconnect = TRUE,
                                      ![t].drain = Failed(res)]
    /\ UNCHANGED <<cfgVars, flagVars, handleVars, sigVars, devVars,
                   envVars, callVars, pipe, obsVars>>

\* source->client->Stop(), after the loop.
CaptureStopClient(t) ==
    /\ At(t, "ct_stop")
    /\ clientStarted' = FALSE
    /\ Goto(t, "ct_null")
    /\ UNCHANGED <<cfgVars, flagVars, handleVars, sigVars, captureDMO,
                   envVars, callVars, pipe, obsVars>>

\* source->captureThread = nullptr.
CaptureClearHandle(t) ==
    /\ At(t, "ct_null")
    /\ captureThread' = NoThread
    /\ Goto(t, "ct_inactive")
    /\ UNCHANGED <<cfgVars, flagVars, reconnectThread, sigVars, devVars,
                   envVars, callVars, pipe, obsVars>>

\* source->active = false; then Reconnect() if the loop ended on a failed
\* drain, else the thread returns.
CaptureClearActive(t) ==
    /\ At(t, "ct_inactive")
    /\ active' = FALSE
    /\ thr' = [thr EXCEPT ![t] = IF thr[t].reconnect
                                 THEN [thr[t] EXCEPT !.pc = "rc_flag"]
                                 ELSE Dead]
    /\ UNCHANGED <<cfgVars, reconnecting, previouslyFailed, handleVars,
                   sigVars, devVars, envVars, callVars, pipe, obsVars>>

\* -------------------------------------------------------- ReconnectThread

\* type = obs_source_get_monitoring_type(source);
\* obs_source_set_monitoring_type(source, OBS_MONITORING_TYPE_NONE).
ReconnectEnter(t) ==
    /\ At(t, "rt_enter")
    /\ thr' = [thr EXCEPT ![t].pc = "rt_wait", ![t].type = monitoring]
    /\ monitoring' = "NONE"
    /\ UNCHANGED <<cfgVars, flagVars, handleVars, sigVars, devVars,
                   callVars, pipe, obsVars>>

\* A supervisor that gives up at the first tick.
ReconnectWaitOnce(t) ==
    /\ At(t, "rt_wait")
    /\ Goto(t, "rt_restore")
    /\ UNCHANGED <<cfgVars, flagVars, handleVars, sigVars, devVars, envVars,
                   callVars, pipe, obsVars>>

\* while (!WaitForSignal(stopSignal, RECONNECT_INTERVAL)): a signalled stop
\* ends the loop, a timeout starts TryInitialize.
ReconnectWait(t) ==
    /\ At(t, "rt_wait")
    /\ Goto(t, IF stopSignal THEN "rt_restore" ELSE "ti_init")
    /\ UNCHANGED <<cfgVars, flagVars, handleVars, sigVars, devVars, envVars,
                   callVars, pipe, obsVars>>

\* obs_source_set_monitoring_type(source, type).
ReconnectRestoreMonitoring(t) ==
    /\ At(t, "rt_restore")
    /\ monitoring' = thr[t].type
    /\ Goto(t, "rt_null")
    /\ UNCHANGED <<cfgVars, flagVars, handleVars, sigVars, devVars,
                   callVars, pipe, obsVars>>

\* source->reconnectThread = nullptr.
ReconnectClearHandle(t) ==
    /\ At(t, "rt_null")
    /\ reconnectThread' = NoThread
    /\ Goto(t, "rt_flag")
    /\ UNCHANGED <<cfgVars, flagVars, captureThread, sigVars, devVars,
                   envVars, callVars, pipe, obsVars>>

\* source->reconnecting = false; the thread returns.
ReconnectClearFlag(t) ==
    /\ At(t, "rt_flag")
    /\ reconnecting' = FALSE
    /\ thr' = [thr EXCEPT ![t] = Dead]
    /\ UNCHANGED <<cfgVars, active, previouslyFailed, handleVars, sigVars,
                   devVars, envVars, callVars, pipe, obsVars>>

\* ------------------------------------------------------------------- Stop

\* WaitForSingleObject(h, INFINITE) returns: an invalid handle fails at
\* once, a thread handle is signalled when that thread has returned.
Waited(h) == h = NoThread \/ thr[h].pc = "exited"

\* The statement after Stop() in the current call.
AfterStop == IF call.op = "update" THEN "upd_settings" ELSE "destroyed"

\* SetEvent(stopSignal).
StopSetEvent ==
    /\ At(Control, "stop_set")
    /\ stopSignal' = TRUE
    /\ Goto(Control, "stop_active")
    /\ trace' = Append(trace, <<"Stop">>)
    /\ UNCHANGED <<cfgVars, flagVars, handleVars, receiveSignal, devVars,
                   envVars, call, nupdates, pipe, obsVars>>

\* if (active) WaitForSingleObject(captureThread, INFINITE): the flag and
\* the handle are read, and the wait begins on the thread the handle names.
StopTestActive ==
    /\ At(Control, "stop_active")
    /\ thr' = [thr EXCEPT
            ![Control].pc = IF active THEN "stop_capwait" ELSE "stop_rec",
            ![Control].h = IF active THEN captureThread ELSE NoThread]
    /\ UNCHANGED <<cfgVars, flagVars, handleVars, sigVars, devVars, envVars,
                   callVars, pipe, obsVars>>

\* ... the wait on the capture thread returns.
StopWaitCapture ==
    /\ At(Control, "stop_capwait")
    /\ Waited(thr[Control].h)
    /\ thr' = [thr EXCEPT ![Control].pc = "stop_rec",
                          ![Control].h = NoThread]
    /\ UNCHANGED <<cfgVars, flagVars, handleVars, sigVars, devVars, envVars,
                   callVars, pipe, obsVars>>

\* if (reconnecting) WaitForSingleObject(reconnectThread, INFINITE).
StopTestReconnecting ==
    /\ At(Control, "stop_rec")
    /\ thr' = [thr EXCEPT
            ![Control].pc = IF reconnecting THEN "stop_recwait"
                            ELSE "stop_reset",
            ![Control].h = IF reconnecting THEN reconnectThread ELSE NoThread]
    /\ UNCHANGED <<cfgVars, flagVars, handleVars, sigVars, devVars, envVars,
                   callVars, pipe, obsVars>>

\* ... the wait on the reconnect thread returns.
StopWaitReconnect ==
    /\ At(Control, "stop_recwait")
    /\ Waited(thr[Control].h)
    /\ thr' = [thr EXCEPT ![Control].pc = "stop_reset",
                          ![Control].h = NoThread]
    /\ UNCHANGED <<cfgVars, flagVars, handleVars, sigVars, devVars, envVars,
                   callVars, pipe, obsVars>>

\* ResetEvent(stopSignal); Stop() returns.
StopResetEvent ==
    /\ At(Control, "stop_reset")
    /\ stopSignal' = FALSE
    /\ Goto(Control, AfterStop)
    /\ trace' = Append(trace, <<"StopReturned">>)
    /\ UNCHANGED <<cfgVars, flagVars, handleVars, receiveSignal, devVars,
                   envVars, call, nupdates, pipe, obsVars>>

\* ----------------------------------------------------------------- Update

\* A restart rule that also restarts on a change of the timing flag or of
\* the dump directory.
RestartOnAnyChange(s) == s # CurrentSettings

\* bool restart of Update().
Restart(s) ==
    \/ s.device_id # device_id
    \/ s.disable_echo_cancellation # disableAEC
    \/ s.aec_input_delay # aecInputDelay

\* Update(settings) up to "if (restart) Stop()".
Update(s) ==
    /\ At(Control, "idle")
    /\ nupdates < MaxUpdates
    /\ nupdates' = nupdates + 1
    /\ call' = [op |-> "update", restart |-> Restart(s), settings |-> s]
    /\ trace' = << >>
    /\ Goto(Control, IF Restart(s) THEN "stop_set" ELSE "upd_settings")
    /\ UNCHANGED <<cfgVars, flagVars, handleVars, sigVars, devVars, envVars,
                   pipe, obsVars>>

\* UpdateSettings(settings), as Update() calls it, and "if (restart)
\* Start()".
UpdateSettings ==
    /\ At(Control, "upd_settings")
    /\ device_id' = call.settings.device_id
    /\ useDeviceTiming' = call.settings.use_device_timing
    /\ isDefaultDevice' = (call.settings.device_id = "default")
    /\ disableAEC' = call.settings.disable_echo_cancellation
    /\ aecInputDelay' = call.settings.aec_input_delay
    /\ aecDumpFileDir' = call.settings.aec_dump_file_dir
    /\ IF call.restart
       THEN /\ Goto(Control, "ti_init")
            /\ trace' = Append(trace, <<"UpdateSettings">>)
            /\ UNCHANGED <<call, nupdates>>
       ELSE /\ Goto(Control, "idle")
            /\ Return(Control, TRUE)
    /\ UNCHANGED <<isInputDevice, flagVars, handleVars, sigVars, devVars,
                   envVars, pipe, obsVars>>

\* ~WASAPISource(): Stop().
Destroy ==
    /\ At(Control, "idle")
    /\ call' = [NoCall EXCEPT !.op = "destroy"]
    /\ trace' = << >>
    /\ Goto(Control, "stop_set")
    /\ UNCHANGED <<cfgVars, flagVars, handleVars, sigVars, devVars, envVars,
                   nupdates, pipe, obsVars>>

\* ------------------------------------------------------------ environment

\* The started client of an input device signals data-ready (SetEventHandle
\* in InitCapture); output devices do not signal.
DeviceSignal ==
    /\ clientStarted
    /\ isInputDevice
    /\ ~receiveSignal
    /\ receiveSignal' = TRUE
    /\ UNCHANGED <<cfgVars, flagVars, handleVars, stopSignal, devVars,
                   envVars, thr, callVars, pipe, obsVars>>

\* ---------------------------------------------------------- specification

Threads == {Control} \cup Workers

TryInitialize(t) ==
    \/ Initialize(t)
    \/ InitCaptureCreateThread(t)
    \/ InitCaptureStart(t)
    \/ InitCaptureActive(t)
    \/ TryInitializePrev(t)
    \/ TryInitializeReturn(t)

Reconnect(t) ==
    \/ ReconnectFlag(t)
    \/ ReconnectCreateThread(t)

CaptureThread(t) ==
    \/ CaptureWait(t)
    \/ CaptureDrain(t)
    \/ CaptureStopClient(t)
    \/ CaptureClearHandle(t)
    \/ CaptureClearActive(t)

ReconnectThread(t) ==
    \/ ReconnectEnter(t)
    \/ ReconnectWait(t)
    \/ ReconnectRestoreMonitoring(t)
    \/ ReconnectClearHandle(t)
    \/ ReconnectClearFlag(t)

Stop ==
    \/ StopSetEvent
    \/ StopTestActive
    \/ StopWaitCapture
    \/ StopTestReconnecting
    \/ StopWaitReconnect
    \/ StopResetEvent

PipeIdle == pipe = 0

\* Any endpoint, and no history.
Unobserved == world = "any" /\ log = LogOff

Init == LifeInit /\ PipeIdle /\ Unobserved

Next ==
    \/ \E t \in Threads : TryInitialize(t) \/ Reconnect(t)
    \/ \E t \in Workers : CaptureThread(t) \/ ReconnectThread(t)
    \/ Stop
    \/ \E s \in Offered : Update(s)
    \/ UpdateSettings
    \/ Destroy
    \/ DeviceSignal

Spec == Init /\ [][Next]_vars

\* The source as the constructor leaves it to Start(), in each world, with
\* the history kept; the host makes no further call, so that stop is never
\* signalled.
OpenInit == LifeInit /\ PipeIdle /\ world \in Worlds /\ log = LogStart

OpenNext ==
    \/ \E t \in Threads : TryInitialize(t) \/ Reconnect(t)
    \/ \E t \in Workers : CaptureThread(t) \/ ReconnectThread(t)
    \/ DeviceSignal

SpecOpen == OpenInit /\ [][OpenNext]_vars

\* The same life cycle, history off, with the supervisor threads scheduled
\* fairly: a supervisor that can take a step (its wait of RECONNECT_INTERVAL
\* returns, a call of its TryInitialize returns) takes one.
FairInit == LifeInit /\ PipeIdle /\ world \in Worlds /\ log = LogOff

Supervisor(t) == ReconnectThread(t) \/ TryInitialize(t)

SpecFair ==
    /\ FairInit
    /\ [][OpenNext]_vars
    /\ \A t \in Workers : WF_vars(Supervisor(t))

\* The life cycle of a source that is created and destroyed, every thread
\* scheduled fairly: a thread that can take a step takes one. The device
\* sets the data-ready event when it likes.
StopNext ==
    \/ \E t \in Threads : TryInitialize(t) \/ Reconnect(t)
    \/ \E t \in Workers : CaptureThread(t) \/ ReconnectThread(t)
    \/ Stop
    \/ Destroy
    \/ DeviceSignal

Scheduled(t) ==
    \/ TryInitialize(t)
    \/ Reconnect(t)
    \/ t \in Workers /\ (CaptureThread(t) \/ ReconnectThread(t))
    \/ t = Control /\ Stop

SpecStop ==
    /\ Init
    /\ [][StopNext]_vars
    /\ \A t \in Threads : WF_vars(Scheduled(t))

\* ------------------------------------------------------ ProcessCaptureData

\* 100 ns, the unit of the timestamps of CMediaBuffer and of the device.
TicksNs == 100

\* The 10 ms, in 100 ns units, taken off the clock reading of a near-end
\* batch.
AecLatency == 100000

\* samples_per_sec of a cancelled frame.
CancelRate == 22050

\* 1000000000ULL, the nanoseconds of a second.
Second == 1000000000

\* os_gettime_ns() when the session starts, and by how much it has advanced
\* at the next reading (never backwards). The clock has run for a second, so
\* that no subtraction below wraps around in the unsigned 64 bits of the
\* build.
ClockStarts == {1000000050}
ClockSteps == {0, 10000000}

\* nSamplesPerSec of the capture format, the frames of a batch, and the
\* device position timestamps (100 ns units) GetBuffer reports.
SampleRates == {44100, 48000}
FrameCounts == {2, 480}
DeviceStamps == {0, 123456}

\* aec_input_delay of a session: obs_data_get_int is stored unchecked.
PipeDelays == (0 - 1)..MaxDelay

\* speakers of a session: ConvertSpeakerLayout of the mix format, here of a
\* one-channel and of a two-channel endpoint.
SessionSpeakers == {"MONO", "STEREO"}

\* What the canceller does with a pair: a ProcessInput or ProcessOutput call
\* fails, or the output holds at most one byte, or it holds a frame.
DmoResults == {"failed", "short", "ok"}

NoBatch == 0 - 1

NoStep ==
    [path |-> "none", now |-> 0, frames |-> 0, devts |-> 0, far |-> FALSE,
     popped |-> NoBatch, flushed |-> FALSE, result |-> "none",
     fartaken |-> NoBatch, farreleased |-> NoBatch,
     outMediaBuffer |-> NoBatch,
     got |-> FALSE, releases |-> 0, how |-> "none", ended |-> "no"]

\* CaptureThread before its loop: dmoActive = false, an empty inputQueue.
PipeStart(start, rate, speakers) ==
    [now |-> start, rate |-> rate, speakers |-> speakers,
     inputQueue |-> << >>,
     dmoActive |-> FALSE, pushed |-> 0, depth |-> 0, released |-> << >>,
     out |-> << >>, last |-> NoStep, session |-> 0, earlier |-> 0,
     dropped |-> 0]

\* The batches drained so far, by this capture thread and the ones before.
Drawn == pipe.earlier + pipe.pushed

\* (uint64_t)frames * 1000000000ULL / (uint64_t)sampleRate. The product is
\* split, f * S \div r = f * (S \div r) + (f * (S % r)) \div r, so that no
\* intermediate value leaves the integers of the model checker.
Duration(frames, rate) ==
    frames * (Second \div rate) + (frames * (Second % rate)) \div rate

\* A timestamp rule that takes the duration off the device timestamp too.
RawTimestampLessDuration(timing, now, ts, frames, rate) ==
    (IF timing THEN ts * TicksNs ELSE now) - Duration(frames, rate)

\* data.timestamp of the raw path.
RawTimestamp(timing, now, ts, frames, rate) ==
    IF timing THEN ts * TicksNs ELSE now - Duration(frames, rate)

\* UINT64 osTs = (os_gettime_ns() / 100) - 100000.
OsTs(now) == (now \div TicksNs) - AecLatency

\* A near-end batch stamped with the device timestamp under
\* use_device_timing.
NearEndStampDevice(timing, now, ts) == IF timing THEN ts ELSE OsTs(now)

\* The timestamp a near-end batch is queued with: CMediaBuffer::Create(
\* frames * 2, osTs, ...), whatever GetBuffer reported and use_device_timing
\* says.
NearEndStamp(timing, now, ts) == OsTs(now)

\* The int delay converted to size_t for the comparison with size(): modulo
\* 2^64 in the build; the model keeps 2^30, far above every queue depth it
\* reaches, so that the comparison has the same outcome.
ToSizeT(d) == d % (2 ^ 30)

\* A release rule that pops as soon as the depth reaches the delay.
ReachesDelay(size, delay) == size >= ToSizeT(delay)

\* inputQueue.size() > aecInputDelay.
Exceeds(size, delay) == size > ToSizeT(delay)

\* A cancelled frame stamped with the clock reading of the iteration that
\* emits it.
CancelledTimestampNow(inTs, osTs) == osTs * TicksNs

\* data.timestamp of a cancelled frame: GetTimestamp() of the released
\* near-end buffer, times 100.
CancelledTimestamp(inTs, osTs) == inTs * TicksNs

\* data.timestamp of a bypassed frame, likewise.
BypassTimestamp(inTs, osTs) == inTs * TicksNs

\* A flag that stays set once a pair was cancelled.
DmoActiveSticky(before, outputDone) == before \/ outputDone

\* dmoActive after a released batch: "dmoActive = outputDone = true" after
\* ProcessOutput, "dmoActive = false" when the output was not done.
DmoActiveAfter(before, outputDone) == outputDone

\* A canceller flushed before every pair.
FlushesAlways(dmoActive) == TRUE

\* if (!dmoActive) captureDMO->Flush(), before the pair is fed.
Flushes(dmoActive) == ~dmoActive

\* What capture->GetBuffer handed out: nothing (it was not called, or it
\* failed), a batch of no frames, or a batch with frames.
Batches == {"none", "empty", "frames"}

\* A drain that forgets the batch of no frames.
CaptureReleasesFrames(batch) == IF batch = "frames" THEN 1 ELSE 0

\* The calls of capture->ReleaseBuffer(frames) for the batch of an
\* iteration: the one before "break" for a batch of no frames, the one at
\* the end of the loop body for any other, none when GetBuffer handed out
\* nothing.
CaptureReleases(batch) == IF batch = "none" THEN 0 ELSE 1

\* The loop of CaptureThread goes on: no drain has returned false.
Draining == pipe.last.ended # "false"

\* The far-end batch of an iteration, named after the near-end batch drained
\* in it: captureRender->GetNextPacketSize and GetBuffer, both returning at
\* once, took one (far) or none.
FarTaken(far, iteration) == IF far THEN iteration ELSE NoBatch

\* captureRender->ReleaseBuffer(outframes), whenever GetBuffer succeeded and
\* whether or not a near-end batch is released from the queue.
FarReleased(taken) == taken

\* An outMediaBuffer that lives as long as the drain: what an iteration did
\* not take is what the one before left.
OutMediaBufferKept(before, taken) == IF taken # NoBatch THEN taken ELSE before

\* ComPtr<IMediaBuffer> outMediaBuffer, declared in the body of the loop: it
\* is null at the start of every iteration, whatever the iteration before
\* took, and holds what this iteration took.
OutMediaBuffer(before, taken) == taken

\* A released batch that is emitted as it is whenever no cancelled frame
\* was emitted for it.
EmitsOrBypasses(release, outputDone, result) ==
    IF ~release THEN << >>
    ELSE IF outputDone /\ result = "ok" THEN <<"cancelled">>
    ELSE <<"bypass">>

\* The calls of obs_source_output_audio of one iteration with a canceller:
\* none without a released batch; the cancelled frame when the output was
\* done and holds more than one byte (result "ok"), none when it was done
\* and holds less; the released batch as it is when the output was not done.
Emits(release, outputDone, result) ==
    IF ~release THEN << >>
    ELSE IF ~outputDone THEN <<"bypass">>
    ELSE IF result = "ok" THEN <<"cancelled">>
    ELSE << >>

\* The frame of a cancelled batch: the canceller's output, mono, 16 bit, at
\* 22050 Hz, with the timestamp of the near-end batch at the front of the
\* queue.
CancelledFrame(queue, osTs) ==
    [id |-> Head(queue).id, session |-> Head(queue).session,
     path |-> "cancelled", speakers |-> "MONO", format |-> "16BIT",
     samples_per_sec |-> CancelRate,
     timestamp |-> CancelledTimestamp(Head(queue).ts, osTs)]

\* A bypass that emits the batch captured in the iteration.
BypassFrameNewest(queue, rate, osTs) ==
    [id |-> queue[Len(queue)].id, session |-> queue[Len(queue)].session,
     path |-> "bypass", speakers |-> "MONO", format |-> "16BIT",
     samples_per_sec |-> rate,
     timestamp |-> BypassTimestamp(queue[Len(queue)].ts, osTs)]

\* The frame of a bypassed batch: the near-end batch at the front of the
\* queue as it was queued (mono, 16 bit), at inputSampleRate, the rate of
\* the capture mix format, with its own timestamp.
BypassFrame(queue, rate, osTs) ==
    [id |-> Head(queue).id, session |-> Head(queue).session,
     path |-> "bypass", speakers |-> "MONO", format |-> "16BIT",
     samples_per_sec |-> rate,
     timestamp |-> BypassTimestamp(Head(queue).ts, osTs)]

\* One iteration of the loop of ProcessCaptureData without a canceller: the
\* batch (frames, device timestamp ts) is emitted with the session's format.
ProcessCaptureDataRaw(step, frames, ts) ==
    /\ ~captureDMO
    /\ Draining
    /\ Drawn < MaxBatches
    /\ LET now == pipe.now + step
           data == [id |-> pipe.pushed, session |-> pipe.session,
                    path |-> "raw", frames |-> frames,
                    speakers |-> pipe.speakers, format |-> "FLOAT",
                    samples_per_sec |-> pipe.rate,
                    timestamp |-> RawTimestamp(useDeviceTiming, now, ts,
                                               frames, pipe.rate)]
       IN pipe' = [pipe EXCEPT
                !.now = now,
                !.pushed = @ + 1,
                !.out = Append(@, data),
                !.last = [NoStep EXCEPT
                            !.path = "raw", !.now = now,
                            !.frames = frames, !.devts = ts,
                            !.got = TRUE,
                            !.releases = CaptureReleases("frames")]]
    /\ UNCHANGED lifeVars

\* One iteration with a canceller: the near-end batch is pushed with its
\* clock reading; a far-end batch is taken if the loopback service has one
\* (far); when the depth exceeds the delay the oldest near-end batch is
\* released and, with a far-end batch, fed to the canceller (flushed first
\* unless dmoActive), whose frame is emitted if it holds more than one byte;
\* a released batch whose output was not done is emitted as it is (it holds
\* two bytes a frame, and a batch of no frames ends the loop before).
ProcessCaptureDataDMO(step, ts, far, result) ==
    /\ captureDMO
    /\ Draining
    /\ Drawn < MaxBatches
    /\ LET now == pipe.now + step
           osTs == OsTs(now)
           queue == Append(pipe.inputQueue,
                           [id |-> pipe.pushed,
                            ts |-> NearEndStamp(useDeviceTiming, now, ts),
                            session |-> pipe.session])
           release == Exceeds(Len(queue), aecInputDelay)
           in == Head(queue)
           taken == FarTaken(far, pipe.pushed)
           outMediaBuffer == OutMediaBuffer(pipe.last.outMediaBuffer, taken)
           paired == release /\ outMediaBuffer # NoBatch
           outputDone == paired /\ result \in {"short", "ok"}
           cancelled == CancelledFrame(queue, osTs)
           bypass == BypassFrame(queue, pipe.rate, osTs)
       IN pipe' = [pipe EXCEPT
                !.now = now,
                !.pushed = @ + 1,
                !.depth = Len(queue),
                !.inputQueue = IF release THEN Tail(queue) ELSE queue,
                !.released = IF release THEN Append(@, in.id) ELSE @,
                !.dmoActive = IF release
                              THEN DmoActiveAfter(@, outputDone)
                              ELSE @,
                !.out = @ \o [i \in 1..Len(Emits(release, outputDone,
                                                   result)) |->
                                IF Emits(release, outputDone, result)[i]
                                        = "cancelled"
                                THEN cancelled ELSE bypass],
                !.last = [NoStep EXCEPT
                            !.path = "dmo", !.now = now, !.devts = ts,
                            !.far = far,
                            !.popped = IF release THEN in.id ELSE NoBatch,
                            !.flushed = /\ paired
                                        /\ Flushes(pipe.dmoActive),
                            !.result = IF paired THEN result ELSE "none",
                            !.fartaken = taken,
                            !.farreleased = FarReleased(taken),
                            !.outMediaBuffer = outMediaBuffer,
                            !.got = TRUE,
                            !.releases = CaptureReleases("frames")]]
    /\ UNCHANGED lifeVars

\* The history after a first attempt that opened a session, with or without
\* a render endpoint and a canceller.
Opening(found, result) ==
    [LogStart EXCEPT
        !.attempts = 1,
        !.last = Passed([NoOpen EXCEPT !.result = result,
                                       !.render = DeviceRender(found)])]

\* A session the constructor has opened for settings with the default device
\* and no dump directory: the capture thread (thread 1) stands in its loop,
\* with a canceller only on an input device with echo cancellation enabled.
PipeInit ==
    /\ device_id = "default"
    /\ isDefaultDevice = TRUE
    /\ useDeviceTiming \in BOOLEAN
    /\ disableAEC \in BOOLEAN
    /\ aecInputDelay \in PipeDelays
    /\ aecDumpFileDir = ""
    /\ isInputDevice \in BOOLEAN
    /\ \E found \in BOOLEAN, result \in {"ok", "absorbed"} :
          /\ result = "absorbed" => DeviceRender(found)
          /\ captureDMO = HasCanceller(found, result)
          /\ log = Opening(found, result)
    /\ ~captureDMO => aecInputDelay = DefaultSettings.aec_input_delay
    /\ active = TRUE
    /\ reconnecting = FALSE
    /\ previouslyFailed = FALSE
    /\ captureThread = 1
    /\ reconnectThread = NoThread
    /\ stopSignal = FALSE
    /\ receiveSignal = FALSE
    /\ clientStarted = TRUE
    /\ monitoring = "MONITOR_ONLY"
    /\ thr = [t \in {Control} \cup Workers |->
                IF t = Control
                THEN [Dead EXCEPT !.kind = "control", !.pc = "idle"]
                ELSE IF t = 1
                THEN [Dead EXCEPT
                        !.kind = "capture", !.pc = "ct_drain",
                        !.att = StartsReference(
                                    [NoOpen EXCEPT
                                        !.result = log.last.result,
                                        !.render = log.last.render,
                                        !.own = TRUE])]
                ELSE [Dead EXCEPT !.pc = "unborn"]]
    /\ call = NoCall
    /\ nupdates = 0
    /\ trace = << >>
    /\ world = "any"
    /\ \E start \in ClockStarts, rate \in SampleRates,
          speakers \in SessionSpeakers :
            pipe = PipeStart(start, rate, speakers)

PipeNext ==
    \/ \E step \in ClockSteps, frames \in FrameCounts, ts \in DeviceStamps :
            ProcessCaptureDataRaw(step, frames, ts)
    \/ \E step \in ClockSteps, ts \in DeviceStamps, far \in BOOLEAN,
          result \in DmoResults :
            ProcessCaptureDataDMO(step, ts, far, result)

SpecPipe == PipeInit /\ [][PipeNext]_vars

\* How the loop of ProcessCaptureData ends: GetNextPacketSize reports no
\* packet, GetBuffer hands out a batch of no frames, or one of the two calls
\* fails.
DrainEnds == {"nopacket", "noframes", "sizefailed", "bufferfailed"}

\* ProcessCaptureData returns: true after "break" (no packet is pending, or
\* the batch holds no frames and is handed back first), false when
\* GetNextPacketSize or GetBuffer failed.
ProcessCaptureDataEnds(how) ==
    /\ Draining
    /\ LET batch == IF how = "noframes" THEN "empty" ELSE "none"
       IN pipe' = [pipe EXCEPT
                !.last = [NoStep EXCEPT
                            !.path = "end", !.how = how,
                            !.got = (batch # "none"),
                            !.releases = CaptureReleases(batch),
                            !.ended = IF how \in {"nopacket", "noframes"}
                                      THEN "true" ELSE "false"]]
    /\ UNCHANGED lifeVars

\* The data path with the ends of its drains.
DrainNext == PipeNext \/ \E how \in DrainEnds : ProcessCaptureDataEnds(how)

SpecDrain == PipeInit /\ [][DrainNext]_vars

\* A capture thread whose queue and flag outlive it, as members of the
\* source would.
CaptureThreadKeeps ==
    /\ pipe.session < MaxSessions
    /\ pipe' = [pipe EXCEPT
            !.pushed = 0, !.depth = 0, !.released = << >>, !.out = << >>,
            !.last = NoStep,
            !.session = @ + 1,
            !.earlier = Drawn,
            !.dropped = 0]
    /\ UNCHANGED lifeVars

\* The capture loop ends (on the stop event or a failed drain) with what its
\* queue holds, and the capture thread of the next session begins: bool
\* dmoActive = false and an empty inputQueue, both locals of the thread.
CaptureThreadBegins ==
    /\ pipe.session < MaxSessions
    /\ pipe' = [PipeStart(pipe.now, pipe.rate, pipe.speakers) EXCEPT
            !.session = pipe.session + 1,
            !.earlier = Drawn,
            !.dropped = Len(pipe.inputQueue)]
    /\ UNCHANGED lifeVars

\* The data path over the sessions of a source.
SessionsNext == PipeNext \/ CaptureThreadBegins

SpecSessions == PipeInit /\ [][SessionsNext]_vars

\* ----------------------------------------------------- claims: life cycle

\* Stop() has returned to its caller, and Start() has not been called since.
StopReturned ==
    \/ At(Control, "upd_settings") /\ call.restart
    \/ At(Control, "destroyed")

\* C1: Stop() returns only after the capture-loop thread and the supervisor
\* thread have exited: once Stop() has returned, and until the next Start(),
\* no worker thread of the source is alive (so none drains, stops the client
\* or attempts an open).
C1_StopJoinsWorkers == StopReturned => \A t \in Workers : ~Alive(t)

\* C2: at most one capture loop is running, and no thread runs Initialize()
\* (which clears and re-creates every device handle) while a capture loop
\* is running.
C2_OneDeviceSession ==
    /\ [](Cardinality(CaptureLoops) <= 1)
    /\ [][\A t \in Threads : Initialize(t) => CaptureLoops = {}]_vars

\* C3: a capture-loop thread and a reconnect-supervisor thread are never
\* alive at the same time.
C3_LoopExcludesSupervisor ==
    ~ \E c \in Workers, r \in Workers : CaptureAlive(c) /\ ReconnectAlive(r)

\* Update() has not yet reached UpdateSettings(): the fields still hold the
\* configuration the call found.
BeforeStore ==
    /\ call.op = "update"
    /\ thr[Control].pc \in {"stop_set", "stop_active", "stop_capwait",
                            "stop_rec", "stop_recwait", "stop_reset",
                            "upd_settings"}

\* The fields in which the settings of the current Update() differ from the
\* configuration it found (while BeforeStore).
Differ == Changed(CurrentSettings, call.settings)

StopThenStore == <<<<"Stop">>, <<"StopReturned">>, <<"UpdateSettings">>>>

\* Update() that changes only use_device_timing goes straight to
\* UpdateSettings(), and that step replaces the timing flag and nothing else
\* of the session.
TimingOnlyKeepsSession ==
    /\ [](BeforeStore /\ Differ = {"use_device_timing"}
            => At(Control, "upd_settings") /\ ~call.restart
               /\ trace = << >>)
    /\ [][BeforeStore /\ Differ = {"use_device_timing"}
            /\ thr'[Control] # thr[Control]
            => /\ useDeviceTiming' = call.settings.use_device_timing
               /\ thr'[Control].pc = "idle"
               /\ \A t \in Workers : thr'[t] = thr[t]
               /\ UNCHANGED <<device_id, isDefaultDevice, disableAEC,
                              aecInputDelay, aecDumpFileDir, isInputDevice,
                              flagVars, handleVars, sigVars, devVars>>]_vars

\* Update() that changes device_id calls Stop(), then UpdateSettings(), then
\* Initialize() on the new device id, in this order, before it returns.
DeviceChangeReopens ==
    /\ [](BeforeStore /\ "device_id" \in Differ
            => /\ call.restart
               /\ At(Control, "upd_settings")
                    => trace = SubSeq(StopThenStore, 1, 2))
    /\ [](call.op = "update" /\ call.restart /\ ~BeforeStore
            => /\ CurrentSettings = call.settings
               /\ Len(trace) >= 3
               /\ SubSeq(trace, 1, 3) = StopThenStore
               /\ Len(trace) = 3 <=> At(Control, "ti_init")
               /\ Len(trace) >= 4
                    => trace[4] = <<"Open", call.settings.device_id>>)

\* C4: Update() with only use_device_timing changed signals no stop, ends no
\* thread and opens nothing: it replaces the timing flag only. Update() with
\* device_id changed performs Stop(), then stores the settings, then starts
\* an open attempt on the new device id.
C4_UpdateRestartRule == TimingOnlyKeepsSession /\ DeviceChangeReopens

\* Update() changed the device from "default" to "mic": it has stopped,
\* stored, and its open attempt on "mic" has made the session active.
C4_Witness ==
    /\ call.op = "update"
    /\ call.restart
    /\ device_id = "mic"
    /\ Len(trace) = 4
    /\ trace[1] = <<"Stop">>
    /\ trace[4] = <<"Open", "mic">>
    /\ At(Control, "ti_ret")
    /\ active

\* C5: Update() in which exactly one of the echo-cancellation flag, the
\* input delay or the dump directory differs restarts the session (Stop()
\* followed by Start()).
C5_AecFieldsRestart ==
    BeforeStore /\ Cardinality(Differ) = 1
        /\ Differ \subseteq {"disable_echo_cancellation", "aec_input_delay",
                             "aec_dump_file_dir"}
    => call.restart

\* ------------------------------------------------------ claims: data path

Max0(n) == IF n > 0 THEN n ELSE 0

Ids(frames) == [i \in 1..Len(frames) |-> frames[i].id]

\* C6: with a canceller and a delay D >= 0, near-end batches are released in
\* arrival order and none before the depth exceeds D: after n pushes the
\* released batches are exactly the first n - D (none while n <= D, when
\* nothing has been emitted either), and the emitted frames are frames of
\* released batches, in order.
C6_ReleaseOrder ==
    captureDMO /\ aecInputDelay >= 0
    => /\ pipe.released
            = [i \in 1..Max0(pipe.pushed - aecInputDelay) |-> i - 1]
       /\ pipe.pushed <= aecInputDelay => pipe.out = << >>
       /\ \A i \in 1..Len(pipe.out) :
            /\ pipe.out[i].id \in 0..(Len(pipe.released) - 1)
            /\ i > 1 => pipe.out[i - 1].id < pipe.out[i].id

\* Delay 2, five near-end batches each with a far-end batch: the third push
\* released N0, and N0, N1, N2 have been cancelled and emitted in order.
C6_Witness ==
    /\ captureDMO
    /\ aecInputDelay = 2
    /\ pipe.pushed = 5
    /\ pipe.released = <<0, 1, 2>>
    /\ Ids(pipe.out) = <<0, 1, 2>>
    /\ \A i \in 1..3 : pipe.out[i].path = "cancelled"

\* C7: the pending near-end queue never holds more than delay + 1 batches,
\* neither right after a push (depth) nor at the end of an iteration.
C7_QueueBound ==
    captureDMO
    => /\ pipe.depth <= aecInputDelay + 1
       /\ Len(pipe.inputQueue) <= aecInputDelay + 1

\* C8: the timestamps of the frames a session with a canceller emits, in
\* the order of emission, never decrease.
C8_TimestampsMonotonic ==
    captureDMO
    => \A i \in 1..Len(pipe.out), j \in 1..Len(pipe.out) :
            i < j => pipe.out[i].timestamp <= pipe.out[j].timestamp

\* A cancelled frame followed by a bypassed frame of a batch captured later,
\* released from a queue that delayed both.
C8_Witness ==
    /\ captureDMO
    /\ aecInputDelay >= 1
    /\ \E i \in 1..(Len(pipe.out) - 1) :
            /\ pipe.out[i].path = "cancelled"
            /\ pipe.out[i + 1].path = "bypass"
            /\ pipe.out[i].timestamp < pipe.out[i + 1].timestamp

\* The last iteration emitted a frame of batch id on the given path.
LastEmitted(id, path) ==
    /\ pipe.out # << >>
    /\ pipe.out[Len(pipe.out)].id = id
    /\ pipe.out[Len(pipe.out)].path = path

\* C9: a near-end batch released in an iteration without a far-end batch is
\* emitted by bypass and leaves dmoActive false; and the iteration that next
\* pairs a released batch with a far-end batch flushes the canceller.
C9_GapBypasses ==
    /\ [](pipe.last.path = "dmo" /\ pipe.last.popped # NoBatch
            /\ ~pipe.last.far
            => LastEmitted(pipe.last.popped, "bypass") /\ ~pipe.dmoActive)
    /\ [][pipe.last.path = "dmo" /\ pipe.last.popped # NoBatch
            /\ ~pipe.last.far
            /\ pipe' # pipe /\ pipe'.last.far
            /\ pipe'.last.popped # NoBatch
            => pipe'.last.flushed]_vars

\* A cancelled batch, then a batch released without a far-end batch and
\* bypassed, then a pairing that flushed the canceller and was cancelled.
C9_Witness ==
    /\ captureDMO
    /\ Len(pipe.out) >= 3
    /\ pipe.out[Len(pipe.out) - 2].path = "cancelled"
    /\ pipe.out[Len(pipe.out) - 1].path = "bypass"
    /\ pipe.last.far
    /\ pipe.last.flushed
    /\ LastEmitted(pipe.last.popped, "cancelled")

\* frameCount * 10^9 / sampleRate, computed directly where the product fits
\* the integers of the model checker.
BatchNs(frames, rate) ==
    IF frames <= 2 THEN (frames * Second) \div rate
    ELSE Duration(frames, rate)

\* C10: a raw batch is stamped now - frameCount * 10^9 / sampleRate when
\* use_device_timing is false, whatever the device timestamp, and with the
\* device timestamp times 100, nothing subtracted, when it is true.
C10_RawTimestamp ==
    pipe.last.path = "raw"
    => pipe.out[Len(pipe.out)].timestamp
         = IF useDeviceTiming
           THEN pipe.last.devts * 100
           ELSE pipe.last.now
                  - BatchNs(pipe.last.frames,
                            pipe.out[Len(pipe.out)].samples_per_sec)

\* A raw batch of two frames stamped with the clock less its duration, or a
\* raw batch stamped with a device timestamp other than 0.
C10_Witness ==
    /\ pipe.last.path = "raw"
    /\ pipe.pushed >= 2
    /\ \/ ~useDeviceTiming /\ pipe.last.frames = 2
          /\ pipe.out[Len(pipe.out)].timestamp < pipe.last.now
       \/ useDeviceTiming /\ pipe.last.devts # 0
          /\ pipe.out[Len(pipe.out)].timestamp = pipe.last.devts * 100

\* ------------------------------------------------- claims: open attempts

\* The last attempt failed: Initialize() did not run InitCapture() to its
\* end.
LastFailed == log.last.result \in {"notfound", "throw"}

\* C11: when the endpoint is absent at every attempt, the attempts made so
\* far (the one of Start() and at least one tick of the supervisor) have
\* written exactly one warning.
C11_OneWarning ==
    world = "absent" /\ log.attempts >= 2 => log.warnings = 1

\* C12: a failed attempt that follows an attempt that opened a session has
\* written the warning of TryInitialize(), whatever made it fail.
C12_FailureAfterSessionLogged ==
    log.opened /\ LastFailed => log.last.warned

\* C13: against a device that rejects its mix format and mono 16-bit PCM and
\* accepts the fixed-rate format, the client is initialised at the third
\* rung, with a block alignment of channels times bytes per sample.
C13_FallbackLadder ==
    log.last.accepts = {"fixed"}
    => /\ InitClient(log.last.accepts) = 3
       /\ ClientFormat(log.last.accepts).nBlockAlign
            = ClientFormat(log.last.accepts).nChannels
                * (ClientFormat(log.last.accepts).wBitsPerSample \div 8)

\* ---------------------------------------------------- claims: emit calls

\* Exactly one emit call per drained batch without a canceller, and exactly
\* one per released batch with one.
C14_OneEmitPerReleased ==
    /\ ~captureDMO => Len(pipe.out) = pipe.pushed
    /\ captureDMO => Len(pipe.out) = Len(pipe.released)

\* C14: without a canceller every drained batch is emitted by one call, in
\* order; with one, an iteration makes one call when it releases a batch
\* that is bypassed or cancelled with output, and none when it releases no
\* batch or the canceller's output is empty; a call carries the batch
\* drained or released in its iteration and no other.
C14_OneEmitPerBatch ==
    /\ [](~captureDMO => Ids(pipe.out) = [i \in 1..pipe.pushed |-> i - 1])
    /\ [][pipe' # pipe /\ captureDMO
            => LET new == SubSeq(pipe'.out, Len(pipe.out) + 1,
                                 Len(pipe'.out))
                   emitted == /\ pipe'.last.popped # NoBatch
                              /\ pipe'.last.result # "short"
               IN /\ SubSeq(pipe'.out, 1, Len(pipe.out)) = pipe.out
                  /\ Len(new) = IF emitted THEN 1 ELSE 0
                  /\ emitted => new[1].id = pipe'.last.popped]_vars

\* Three batches were released: one was cancelled with output, one was
\* bypassed, and the canceller's output for one was empty.
C14_Witness ==
    /\ captureDMO
    /\ Len(pipe.released) = 3
    /\ Len(pipe.out) = 2
    /\ \E i, j \in 1..2 : /\ pipe.out[i].path = "cancelled"
                           /\ pipe.out[j].path = "bypass"
    /\ pipe.last.result = "short"

\* ------------------------------------------------ claims: reconnection

\* The capture thread u returns from a drain with true while the stream
\* of the client is running: the batches the device held were emitted.
Drained(u) ==
    /\ thr[u].kind = "capture"
    /\ thr[u].pc = "ct_drain"
    /\ thr'[u].pc = "ct_wait"
    /\ clientStarted

\* C15: once a capture loop has ended on a failed drain, no capture thread
\* emits a batch until an open attempt has spawned a capture loop again.
C15_SilentUntilReopened ==
    [][\A u \in Workers : Drained(u) => ~thr[u].silenced]_vars


\* The supervisor t has saved the monitoring type and has not yet put it
\* back (lines 740-751).
Holding(t) ==
    /\ thr[t].kind = "reconnect"
    /\ thr[t].pc \notin {"unborn", "rt_enter", "rt_null", "rt_flag", "exited"}

\* The supervisor t is in its retry loop (lines 746-749).
Retrying(t) == Holding(t) /\ thr[t].pc # "rt_restore"

\* The monitoring type of the source before any supervisor ran.
PriorMonitoring == "MONITOR_ONLY"

\* C16: while a supervisor is retrying monitoring is off, and whenever no
\* supervisor holds a saved monitoring type the source has the type it had
\* before the supervisor was entered.
C16_MonitoringRestored ==
    /\ (\E t \in Workers : Retrying(t)) => monitoring = "NONE"
    /\ (\A t \in Workers : ~Holding(t)) => monitoring = PriorMonitoring


\* A supervisor retries with nothing else of the source running and a
\* thread left to create, where every call of every attempt succeeds.
RetryingAlone ==
    /\ world = "ok"
    /\ Created < MaxThreads
    /\ thr[Control].pc = "idle"
    /\ \E t \in Workers : Retrying(t)
    /\ \A t \in Workers : Alive(t) => thr[t].kind = "reconnect"

\* The supervisor t leaves its retry loop.
LeavesLoop(t) ==
    /\ Retrying(t)
    /\ thr'[t].kind = "reconnect"
    /\ thr'[t].pc = "rt_restore"

FailedReturn(t) ==
    /\ At(t, "ti_ret")
    /\ thr[t].failed
    /\ thr'[t].pc # "ti_ret"

\* C18: an open attempt that failed before the capture loop was spawned
\* leaves active false and is followed by the supervisor: Start() goes on to
\* Reconnect(), a supervisor goes on with its loop.
C18_FailedAttemptRetried ==
    [][\A t \in Threads :
            FailedReturn(t) =>
                /\ ~active
                /\ thr'[t].pc = IF t = Control THEN "rc_flag"
                                ELSE "rt_wait"]_vars


\* ------------------------------------------ claims: echo canceller set-up

\* if (captureDMO.Get()) of ProcessCaptureData: without a canceller a drain
\* takes the raw path.
RawPath == ~captureDMO

\* t is in, or is the capture loop of, an open attempt on an input device
\* with echo cancellation enabled whose render endpoint was not resolved,
\* and the handles of the source are still those of that attempt.
Unresolved(t) ==
    /\ isInputDevice
    /\ ~disableAEC
    /\ thr[t].att.own
    /\ thr[t].att.result = "ok"
    /\ ~thr[t].att.render

\* The thread t leaves the statement at p.
Leaves(t, p) == At(t, p) /\ thr'[t].pc # p

\* C19: an unresolved render endpoint fails no open attempt: where every
\* tested call succeeds Initialize() goes on to spawn the capture loop
\* whether or not the render endpoint was found; the attempt sets active,
\* builds no canceller, starts no reference client, and its capture loop
\* drains on the raw path.
C19_RenderUnresolvedNotFatal ==
    /\ [](\A t \in Threads :
            Unresolved(t) => RawPath /\ ~thr[t].att.reference)
    /\ [][\A t \in Threads :
            /\ Leaves(t, "ti_init") /\ world = "ok"
                    => thr'[t].pc = "ic_create"
            /\ Leaves(t, "ic_active") /\ Unresolved(t) => active']_vars

\* A capture loop of a session opened without a render endpoint drains.
C19_Witness ==
    /\ active
    /\ \E u \in Workers :
          /\ thr[u].kind = "capture"
          /\ At(u, "ct_drain")
          /\ Unresolved(u)

\* t is in, or is the capture loop of, an open attempt in which a step of
\* the canceller's set-up failed, and the handles of the source are still
\* those of that attempt.
Absorbed(t) ==
    /\ thr[t].att.own
    /\ thr[t].att.result = "absorbed"

\* C20: a failure at any step of the canceller's set-up is absorbed: the
\* canceller is cleared, the attempt goes on to spawn the capture loop (it
\* can fail there only on CreateThread) and sets active, the reference
\* client is not started, and the capture loop drains on the raw path.
C20_CancellerFailureAbsorbed ==
    /\ [](\A f \in DmoSteps : Outcome(f) = "absorbed")
    /\ [](\A t \in Threads :
            Absorbed(t) => RawPath /\ ~thr[t].att.reference)
    /\ [][\A t \in Threads :
            /\ Leaves(t, "ic_create") /\ Absorbed(t)
                    => \/ /\ thr'[t].pc = "ic_start"
                          /\ thr'[captureThread'].att = thr[t].att
                       \/ thr'[t].failed
            /\ Leaves(t, "ic_active") /\ Absorbed(t) => active']_vars

\* A capture loop of a session whose canceller could not be set up drains.
C20_Witness ==
    /\ active
    /\ \E u \in Workers :
          /\ thr[u].kind = "capture"
          /\ At(u, "ct_drain")
          /\ Absorbed(u)


\* ------------------------------------------------- claims: the capture loop

\* The capture thread u, its loop ended on a failed drain, starts the
\* supervisor: CreateThread(ReconnectThread) of Reconnect() succeeds.
StartsSupervisor(u) ==
    /\ thr[u].kind = "capture"
    /\ At(u, "rc_create")
    /\ thr'[u].pc # "rc_create"
    /\ reconnectThread' # NoThread

\* C21: a capture loop that a failed drain has ended starts the supervisor
\* on an inactive session: when the supervisor is started the primary
\* client is stopped and active is false.
C21_InvalidationHandsOver ==
    [][\A u \in Workers :
            StartsSupervisor(u) => ~clientStarted /\ ~active]_vars


\* C22: once Stop() has set the stop event, the capture loop and the
\* supervisor see it at a wait and exit, so that Stop() returns, whatever
\* the device does.
C22_StopReturns == stopSignal ~> At(Control, "destroyed")


\* The thread t spawns a capture loop: CreateThread(CaptureThread) of
\* InitCapture() succeeds.
Spawns(t) == At(t, "ic_create") /\ thr'[t].pc = "ic_start"

\* The capture thread u makes the calls of a drain.
Drains(u) ==
    /\ thr[u].kind = "capture"
    /\ At(u, "ct_drain")
    /\ thr'[u].pc # "ct_drain"

\* C23: the primary client is started before the capture loop is spawned,
\* and no capture loop drains a client that has not been started.
C23_StartedBeforeSpawn ==
    [][/\ \A t \in Threads : Spawns(t) => clientStarted
       /\ \A u \in Workers :
            Drains(u) /\ thr[u].att.own => clientStarted]_vars


\* The thread t is in an open attempt on an output device that has passed
\* InitRender() and client->Start(), the handles of the source still those
\* of the attempt: the buffer of silence was written (lines 427-443 throw
\* otherwise).
OutputOpened(t) ==
    /\ ~isInputDevice
    /\ At(t, "ic_active")
    /\ thr[t].att.own
    /\ thr[t].att.result = "ok"

\* C24: in a successful open of an output session the render client, with
\* its buffer of silence, has been started when the clients are started.
C24_RenderClientStarted ==
    \A t \in Threads : OutputOpened(t) => thr[t].att.reference


\* The capture thread u has left its loop at a wait that saw the stop
\* event, not on a failed drain.
StoppedLoop(u) ==
    /\ thr[u].kind = "capture"
    /\ thr[u].pc \in {"ct_stop", "ct_null", "ct_inactive"}
    /\ ~thr[u].reconnect

\* C25: a wait ends the capture loop only when it sees the stop event, never
\* on a timeout or on data-ready; the thread then stops the primary client,
\* clears active and returns without calling Reconnect().
C25_StopExitsCleanly ==
    [][\A u \in Workers :
        /\ thr[u].kind = "capture" /\ Leaves(u, "ct_wait")
                => \/ thr'[u].pc = "ct_drain"
                   \/ stopSignal /\ ~receiveSignal /\ StoppedLoop(u)'
        /\ StoppedLoop(u) /\ Leaves(u, "ct_stop")
                => ~clientStarted' /\ StoppedLoop(u)'
        /\ StoppedLoop(u) /\ Leaves(u, "ct_null") => StoppedLoop(u)'
        /\ StoppedLoop(u) /\ Leaves(u, "ct_inactive")
                => /\ ~active'
                   /\ thr'[u].pc = "exited"
                   /\ UNCHANGED <<reconnecting, reconnectThread>>]_vars

\* A capture thread that saw the stop event has stopped the client and is
\* about to clear active.
C25_Witness ==
    \E u \in Workers :
        StoppedLoop(u) /\ At(u, "ct_inactive") /\ active /\ ~clientStarted


\* ---------------------------------------------- claims: the pending queue

\* C26: every capture thread begins with an empty pending queue and
\* dmoActive false, and what it queues and emits was captured by itself:
\* the batches an earlier loop left queued are emitted by no later one.
C26_QueueDiscarded ==
    /\ pipe.pushed = 0 => pipe.inputQueue = << >> /\ ~pipe.dmoActive
    /\ \A i \in DOMAIN pipe.inputQueue :
            pipe.inputQueue[i].session = pipe.session
    /\ \A i \in DOMAIN pipe.out : pipe.out[i].session = pipe.session

\* A later session emits after the one before it left batches queued.
C26_Witness ==
    /\ pipe.session > 0
    /\ pipe.dropped > 0
    /\ pipe.out # << >>


\* The iteration that has just run released a batch and had a far-end batch
\* to pair it with.
Paired(p) == p.last.path = "dmo" /\ p.last.popped # NoBatch /\ p.last.far

\* The iteration that has just run released a batch and the canceller's
\* ProcessOutput succeeded for it.
Cancelled(p) == Paired(p) /\ p.last.result \in {"short", "ok"}

\* C27: the canceller is flushed before a pair is fed exactly when
\* dmoActive is false, that is when the session has released no batch
\* before or the batch released before was not successfully cancelled; it
\* is not flushed between two successfully cancelled batches, and never
\* without a pair.
C27_FlushRule ==
    [][pipe' # pipe /\ pipe'.session = pipe.session =>
        /\ pipe'.last.flushed => Paired(pipe')
        /\ Paired(pipe') =>
            /\ pipe'.last.flushed <=> ~pipe.dmoActive
            /\ pipe'.last.flushed <=>
                    pipe.released = << >> \/ ~Cancelled(pipe)
            /\ Cancelled(pipe) => ~pipe'.last.flushed]_vars

\* The canceller is flushed again in the middle of a session: the batch
\* released before the pair was not cancelled.
C27_Witness ==
    /\ pipe.last.flushed
    /\ Len(pipe.released) >= 3
    /\ pipe.dmoActive


\* ------------------------------------------------- claims: emitted frames

\* The near-end batch at the front of the queue of p once the batch that p
\* captures next is pushed: its number, and the clock reading (100 ns) it
\* was queued with, now being the clock at the push.
OldestId(p) == IF p.inputQueue = << >> THEN p.pushed ELSE p.inputQueue[1].id

OldestTs(p, now) ==
    IF p.inputQueue = << >> THEN OsTs(now) ELSE p.inputQueue[1].ts

\* The frame emitted last.
LastFrame(p) == p.out[Len(p.out)]

\* C28: an iteration that releases a near-end batch and got no far-end batch
\* emits one frame, the batch that was at the front of the queue, as mono,
\* 16 bit, at the rate of the capture format, with the timestamp taken when
\* that batch was captured, and leaves dmoActive false.
C28_BypassOldest ==
    [][pipe' # pipe /\ pipe'.last.popped # NoBatch /\ ~pipe'.last.far =>
        /\ Len(pipe'.out) = Len(pipe.out) + 1
        /\ LastFrame(pipe').path = "bypass"
        /\ LastFrame(pipe').id = OldestId(pipe)
        /\ LastFrame(pipe').session = pipe.session
        /\ LastFrame(pipe').speakers = "MONO"
        /\ LastFrame(pipe').format = "16BIT"
        /\ LastFrame(pipe').samples_per_sec = pipe.rate
        /\ LastFrame(pipe').timestamp
                = OldestTs(pipe, pipe'.now) * TicksNs
        /\ ~pipe'.dmoActive]_vars

\* A bypassed batch that is older than the batch captured in the iteration,
\* captured at an earlier clock reading.
C28_Witness ==
    /\ pipe.last.popped # NoBatch
    /\ ~pipe.last.far
    /\ pipe.last.popped < pipe.pushed - 1
    /\ LastFrame(pipe).timestamp < OsTs(pipe.now) * TicksNs


\* C29: a cancelled frame is mono, 16 bit, at 22050 Hz, and its timestamp is
\* the clock reading taken when its near-end batch was captured (less the
\* 10 ms), in nanoseconds, whatever timestamps the device reported and
\* whatever use_device_timing says: every batch is queued with the clock
\* reading of its iteration, and the frame carries that of the batch at the
\* front of the queue.
C29_CancelledTimestampFromClock ==
    [][pipe' # pipe /\ pipe'.last.path = "dmo" =>
        /\ pipe'.inputQueue # << >> =>
                pipe'.inputQueue[Len(pipe'.inputQueue)]
                    = [id |-> pipe.pushed, ts |-> OsTs(pipe'.now),
                       session |-> pipe.session]
        /\ Len(pipe'.out) > Len(pipe.out)
                /\ LastFrame(pipe').path = "cancelled" =>
            /\ LastFrame(pipe').speakers = "MONO"
            /\ LastFrame(pipe').format = "16BIT"
            /\ LastFrame(pipe').samples_per_sec = CancelRate
            /\ LastFrame(pipe').id = OldestId(pipe)
            /\ LastFrame(pipe').timestamp
                    = OldestTs(pipe, pipe'.now) * TicksNs]_vars

\* A cancelled frame is emitted under use_device_timing in an iteration
\* whose device timestamp is not the clock's.
C29_Witness ==
    /\ useDeviceTiming
    /\ pipe.last.path = "dmo"
    /\ pipe.last.result = "ok"
    /\ pipe.last.devts # OsTs(pipe.now)
    /\ pipe.out # << >>
    /\ LastFrame(pipe).path = "cancelled"
    /\ LastFrame(pipe).id = pipe.last.popped


\* C30: a session has a canceller only on an input device with echo
\* cancellation enabled and a reference client; clientRender is started only
\* with a canceller; and without a canceller every drained batch is emitted
\* once, raw, with the speakers, sample rate and format of the session.
C30_CancellerOnlyWithReference ==
    /\ captureDMO =>
            /\ isInputDevice
            /\ ~disableAEC
            /\ \A u \in CaptureLoops : thr[u].att.render
    /\ \A u \in CaptureLoops : thr[u].att.reference => captureDMO
    /\ ~captureDMO =>
            /\ Len(pipe.out) = pipe.pushed
            /\ \A i \in DOMAIN pipe.out :
                    /\ pipe.out[i].id = i - 1
                    /\ pipe.out[i].path = "raw"
                    /\ pipe.out[i].speakers = pipe.speakers
                    /\ pipe.out[i].samples_per_sec = pipe.rate
                    /\ pipe.out[i].format = "FLOAT"

\* An input session with echo cancellation enabled and no canceller has
\* emitted raw batches on a two-channel device.
C30_Witness ==
    /\ isInputDevice
    /\ ~disableAEC
    /\ ~captureDMO
    /\ pipe.speakers = "STEREO"
    /\ Len(pipe.out) >= 2


\* ------------------------------------------------ claims: the far-end batch

\* C31: an iteration with a canceller takes at most one far-end batch, its
\* own; the batch is handed back to the loopback service in the iteration;
\* the canceller is fed exactly when the iteration both took a far-end batch
\* and released a near-end batch, and with no far-end batch of an earlier
\* iteration.
C31_FarEndWithinIteration ==
    pipe.last.path = "dmo" =>
        /\ pipe.last.fartaken \in {NoBatch, pipe.pushed - 1}
        /\ pipe.last.fartaken # NoBatch <=> pipe.last.far
        /\ pipe.last.farreleased = pipe.last.fartaken
        /\ pipe.last.outMediaBuffer = pipe.last.fartaken
        /\ pipe.last.result # "none" <=>
                /\ pipe.last.popped # NoBatch
                /\ pipe.last.fartaken # NoBatch

\* A far-end batch taken while the queue was still filling: it is handed
\* back and dropped.
C31_Witness ==
    /\ pipe.last.path = "dmo"
    /\ pipe.last.fartaken # NoBatch
    /\ pipe.last.popped = NoBatch
    /\ pipe.last.farreleased = pipe.last.fartaken
    /\ pipe.last.result = "none"

\* C32: a released near-end batch for which the canceller ran and left at
\* most one byte of output gets no call of obs_source_output_audio, neither
\* with the canceller's output nor with the batch as it is, and leaves
\* dmoActive true; so the calls never outnumber the released batches.
C32_ShortOutputSilent ==
    /\ [](captureDMO => Len(pipe.out) <= Len(pipe.released))
    /\ [][pipe'.last.result = "short"
            => /\ pipe'.last.popped # NoBatch
               /\ pipe'.released = Append(pipe.released, pipe'.last.popped)
               /\ pipe'.out = pipe.out
               /\ pipe'.dmoActive]_vars

\* The canceller was fed a pair and left no output: the batch is released,
\* nothing was emitted for it, and the flag is set.
C32_Witness ==
    /\ captureDMO
    /\ pipe.last.result = "short"
    /\ pipe.last.popped # NoBatch
    /\ pipe.dmoActive
    /\ Len(pipe.out) < Len(pipe.released)

\* ---------------------------------------------------- claims: the flags

\* A statement that reads active: "if (active)" of Stop(), and
\* "previouslyFailed = !active" and "return active" of TryInitialize(),
\* called by Start() and by the supervisor.
ReadsActive ==
    \/ StopTestActive
    \/ \E t \in Threads : TryInitializePrev(t) \/ TryInitializeReturn(t)

\* C33: whenever Stop(), Start() or the supervisor reads active, it is true
\* if and only if a capture thread of the source is alive.
C33_ActiveIffLoopAlive ==
    [][ReadsActive => (active <=> \E t \in Workers : CaptureAlive(t))]_vars

\* The supervisor threads that have not returned.
Supervisors == {t \in Workers : ReconnectAlive(t)}

\* No thread stands between the two assignments of Reconnect()
\* (reconnecting = true; reconnectThread = CreateThread(...)) or between the
\* two of the end of ReconnectThread (reconnectThread = nullptr;
\* reconnecting = false).
Settled == \A t \in Threads : thr[t].pc \notin {"rc_create", "rt_flag"}

\* C34: at most one supervisor thread is alive, and while one is alive the
\* flag reconnecting is set and reconnectThread is its handle.
C34_OneSupervisor ==
    /\ Cardinality(Supervisors) <= 1
    /\ Settled /\ Supervisors # {}
            => reconnecting /\ reconnectThread \in Supervisors

\* ------------------------------------------------- claims: failed drains

\* The capture thread u leaves its capture loop.
EndsLoop(u) ==
    /\ thr[u].kind = "capture"
    /\ thr[u].pc \in {"ct_wait", "ct_drain"}
    /\ thr'[u].pc = "ct_stop"

\* C35: a drain that fails ends the capture loop with reconnect set,
\* whatever the failure, and the capture thread then stops the client,
\* clears the handle and the flag and calls Reconnect(); ProcessCaptureData
\* has logged one warning when the failure was not "device invalidated" and
\* none when it was.
C35_OtherFailureRecovers ==
    [][\A u \in Workers :
        /\ At(u, "ct_drain") /\ thr'[u].pc \notin {"ct_drain", "ct_wait"}
              => /\ EndsLoop(u)
                 /\ thr'[u].reconnect
                 /\ thr'[u].drain.res \in DrainFailures
                 /\ thr'[u].drain.warnings =
                        IF thr'[u].drain.res = "other" THEN 1 ELSE 0
        /\ thr[u].kind = "capture" /\ thr[u].drain.res # "none"
              => /\ thr[u].reconnect
                 /\ thr'[u].drain \in {thr[u].drain, NoDrain}
                 /\ thr'[u].pc # "exited" \/ At(u, "rc_create")
                 /\ At(u, "ct_inactive") /\ thr'[u].pc # "ct_inactive"
                        => thr'[u].pc = "rc_flag"]_vars

\* A capture thread whose drain failed otherwise than by invalidation has
\* logged the warning once and has called Reconnect().
C35_Witness ==
    \E u \in Workers :
        /\ thr[u].kind = "capture"
        /\ thr[u].drain = [res |-> "other", warnings |-> 1]
        /\ At(u, "rc_create")

\* ------------------------------------------- claims: the suppression flag

\* C36: previouslyFailed holds when a failed open attempt returns, and it is
\* cleared by no statement but "previouslyFailed = !active" of an attempt
\* that opened a session; so the catch blocks of TryInitialize() log at most
\* one warning between two successful opens.
C36_FailureSetsFlag ==
    /\ [][\A t \in Threads :
            TryInitializeReturn(t) /\ thr[t].failed
                => previouslyFailed]_vars
    /\ [][previouslyFailed /\ ~previouslyFailed'
            => \E t \in Threads :
                    TryInitializePrev(t) /\ ~thr[t].failed]_vars

\* ---------------------------------------------- claims: a failing canceller

\* C37: when ProcessInput or ProcessOutput fails for a released near-end
\* batch, the iteration emits that batch once, as it is, and no cancelled
\* frame; dmoActive is false after it, and the next iteration that feeds the
\* canceller flushes it first.
C37_CancellerFailureBypasses ==
    /\ [][pipe'.last.result = "failed"
            => /\ pipe'.last.popped # NoBatch
               /\ Len(pipe'.out) = Len(pipe.out) + 1
               /\ SubSeq(pipe'.out, 1, Len(pipe.out)) = pipe.out
               /\ LastFrame(pipe').id = pipe'.last.popped
               /\ LastFrame(pipe').path = "bypass"
               /\ ~pipe'.dmoActive]_vars
    /\ [][pipe.last.result = "failed" /\ pipe' # pipe /\ Paired(pipe')
            => pipe'.last.flushed]_vars

\* A pair was cancelled and the canceller failed on the next one: its batch
\* was emitted as it is and the flag is false again.
C37_Witness ==
    /\ captureDMO
    /\ pipe.last.result = "failed"
    /\ Len(pipe.out) >= 2
    /\ pipe.out[Len(pipe.out) - 1].path = "cancelled"
    /\ LastFrame(pipe).path = "bypass"
    /\ LastFrame(pipe).id = pipe.last.popped
    /\ ~pipe.dmoActive

\* --------------------------------------------- claims: the signed delay

\* C38: for every delay, negative ones included, an iteration whose queue
\* depth exceeds max(delay, 0) releases a batch, and the queue never holds
\* more than max(delay, 0) + 1 batches.
C38_NegativeDelayClamped ==
    captureDMO
    => /\ pipe.depth <= Max0(aecInputDelay) + 1
       /\ pipe.last.path = "dmo" /\ pipe.depth > Max0(aecInputDelay)
            => pipe.last.popped # NoBatch

\* ------------------------------------------ claims: the capture buffers

\* C39: every batch capture->GetBuffer hands out is handed back by exactly
\* one ReleaseBuffer before the next call of the capture service and before
\* ProcessCaptureData returns, on every path of the loop body; and the
\* drain returns true exactly when no packet was pending or the batch held
\* no frames, false exactly when a call of the capture service failed.
C39_BufferReleasedOnce ==
    /\ pipe.last.releases = IF pipe.last.got THEN 1 ELSE 0
    /\ pipe.last.path \in {"raw", "dmo"}
            => pipe.last.got /\ pipe.last.ended = "no"
    /\ pipe.last.path = "end"
            => /\ pipe.last.got <=> pipe.last.how = "noframes"
               /\ pipe.last.ended = "true"
                    <=> pipe.last.how \in {"nopacket", "noframes"}
               /\ pipe.last.ended = "false"
                    <=> pipe.last.how \in {"sizefailed", "bufferfailed"}

\* A drain of a session with a canceller has queued a batch without
\* releasing one, and ends on a batch of no frames, which it hands back.
C39_Witness ==
    /\ captureDMO
    /\ pipe.inputQueue # << >>
    /\ pipe.released = << >>
    /\ pipe.last.path = "end"
    /\ pipe.last.how = "noframes"
    /\ pipe.last.got
    /\ pipe.last.releases = 1
    /\ pipe.last.ended = "true"
====
